---- MODULE Spec2Model ----
(***************************************************************************)
(* Credit ledger, coupon redemption and payment workflow of the zerocraft  *)
(* backend (Express handlers over a Prisma store).                         *)
(*                                                                         *)
(* The store is the tables user.credits, creditHistory, payment, coupon,   *)
(* couponUsage, paymentRequest and businessPlan.  Each handler is a check  *)
(* (the error it answers with, or "ok") and a write.  A handler that       *)
(* answers with an error leaves the store as it is.  Specification Spec    *)
(* serves requests one after the other, each handler as one step.  The     *)
(* Race specifications split the handlers at the await between their read  *)
(* and their write and interleave two server workers.  A                   *)
(* prisma.$transaction is one atomic step: its statements are blind writes *)
(* and atomic increments.                                                  *)
(***************************************************************************)
EXTENDS Integers, Sequences, FiniteSets, TLC

\* ------------------------------------------------------------------ bounds
MaxPayments == 2
MaxRequests == 1
MaxHistory  == 3
MaxPlans    == 1
MaxTime     == 1

\* --------------------------------------------------------- program constants
MinDeposit == 1000

PRODUCTS ==
  ("business_plan_1" :> [credits |-> 1, price |-> 50000]) @@
  ("business_plan_3" :> [credits |-> 3, price |-> 79900]) @@
  ("business_plan_5" :> [credits |-> 5, price |-> 119900]) @@
  ("credit-1" :> [credits |-> 1, price |-> 50000]) @@
  ("credit-3" :> [credits |-> 3, price |-> 79900]) @@
  ("credit-5" :> [credits |-> 5, price |-> 119900])

Max(a, b) == IF a >= b THEN a ELSE b

\* ------------------------------------------------------------------ inputs
\* alice is a customer; bob is the admin, and the other account where a
\* request names an account that does not own the row
Users == {"alice", "bob"}
Customers == {"alice"}
Procs == {"p1", "p2"}

ProductInputs == {"credit-3", "gold"}
CodeInputs    == {"", "save", "SAVE", "nope"}
CouponBodies  ==
  { [code |-> "save", discountAmount |-> 10000, expiresAt |-> 0, maxUses |-> 1],
    [code |-> "SAVE", discountAmount |-> 80000, expiresAt |-> 1, maxUses |-> 0] }
GatewayReplies == {"accepted", "rejected", "error"}
OrderIdInputs == 1 .. (MaxPayments + 1)
RequestIdInputs == 1 .. (MaxRequests + 1)
DepositInputs == {0, 999, 1000}
SubmitCreditsInputs == {0, -2}
ApproveCreditsInputs == {0, 2}
NoteInputs == {"", "no deposit"}
OverrideTargets == {"alice", "ghost"}
OverrideInputs == {-1, 0, 2}
CouponIdInputs == {1, 3}
PlanIdInputs == {1, 2}
\* the content of a PUT body; "" is a body without content
ContentInputs == {"", "edited"}
\* bodies of PATCH /api/coupons/:id; a field is the set of the values it carries,
\* empty when the body leaves it out
PatchBodies ==
  { [isActive |-> {FALSE}, maxUses |-> {}],
    [isActive |-> {}, maxUses |-> {{1}}] }

\* the amounts a client sends to confirm: none, a wrong one, or one a create can return
AmountInputs ==
  {0, 1} \cup
  {Max(0, PRODUCTS[p].price - d) :
     p \in ProductInputs \cap DOMAIN PRODUCTS,
     d \in {0} \cup {b.discountAmount : b \in CouponBodies}}

VARIABLES
  credits,          \* user.credits, per account
  history,          \* creditHistory rows, in insertion order; description is the
                    \* text the writing handler gives the row
  payments,         \* payment rows; a row's index is its id and its orderId
  coupons,          \* coupon rows; a row's index is its id
  couponUsages,     \* couponUsage rows, in insertion order
  paymentRequests,  \* paymentRequest rows; a row's index is its id
  plans,            \* businessPlan rows; a row's index is its id, a deleted row
                    \* keeps its index and is marked
  now,              \* the clock validateCoupon reads with new Date()
  reqs              \* per worker: the request it serves, held across its await

db == <<credits, history, payments, coupons, couponUsages, paymentRequests, plans>>
vars == <<credits, history, payments, coupons, couponUsages, paymentRequests,
          plans, now, reqs>>

Idle == [op |-> "idle"]

\* worker p has sent its response
Respond(p, result) == reqs' = [reqs EXCEPT ![p] = [op |-> "done", result |-> result]]

\* String.prototype.toUpperCase on the codes the model uses
ToUpperCase(s) == IF s = "save" THEN "SAVE" ELSE s

Init ==
  /\ credits = [u \in Users |-> 0]
  /\ history = <<>>
  /\ payments = <<>>
  /\ coupons = <<>>
  /\ couponUsages = <<>>
  /\ paymentRequests = <<>>
  /\ plans = <<>>
  /\ now = 0
  /\ reqs = [p \in Procs |-> Idle]

\* ------------------------------------------------------------------ coupons

\* prisma.coupon.findUnique({ where: { code } }): the ids of the rows with that code
CouponByCode(code) == {i \in DOMAIN coupons : coupons[i].code = code}

\* validateCoupon that tests the usage cap before isActive and expiresAt
validateCouponCapFirst(code) ==
  LET found == CouponByCode(ToUpperCase(code)) IN
  IF found = {} THEN [valid |-> FALSE, reason |-> "NotFound", coupon |-> {}]
  ELSE LET id == CHOOSE i \in found : TRUE
           coupon == coupons[id] IN
    IF coupon.maxUses # {} /\ (\E m \in coupon.maxUses : coupon.usedCount >= m)
      THEN [valid |-> FALSE, reason |-> "ExhaustedUses", coupon |-> {}]
    ELSE IF ~coupon.isActive THEN [valid |-> FALSE, reason |-> "Inactive", coupon |-> {}]
    ELSE IF coupon.expiresAt < now
      THEN [valid |-> FALSE, reason |-> "Expired", coupon |-> {}]
    ELSE [valid |-> TRUE, reason |-> "none", coupon |-> {id}]

\* validateCoupon of coupons.routes.ts
validateCoupon(code) ==
  LET found == CouponByCode(ToUpperCase(code)) IN
  IF found = {} THEN [valid |-> FALSE, reason |-> "NotFound", coupon |-> {}]
  ELSE LET id == CHOOSE i \in found : TRUE
           coupon == coupons[id] IN
    IF ~coupon.isActive THEN [valid |-> FALSE, reason |-> "Inactive", coupon |-> {}]
    ELSE IF coupon.expiresAt < now
      THEN [valid |-> FALSE, reason |-> "Expired", coupon |-> {}]
    ELSE IF coupon.maxUses # {} /\ (\E m \in coupon.maxUses : coupon.usedCount >= m)
      THEN [valid |-> FALSE, reason |-> "ExhaustedUses", coupon |-> {}]
    ELSE [valid |-> TRUE, reason |-> "none", coupon |-> {id}]

\* the check of POST /api/coupons
CreateCouponCheck(body) ==
  IF CouponByCode(ToUpperCase(body.code)) # {} THEN "Duplicate" ELSE "ok"

\* POST /api/coupons (admin)
CreateCoupon(body) ==
  /\ IF CreateCouponCheck(body) # "ok"
       THEN UNCHANGED coupons
       ELSE coupons' = Append(coupons,
              [code |-> ToUpperCase(body.code),
               discountAmount |-> body.discountAmount,
               expiresAt |-> body.expiresAt,
               maxUses |-> IF body.maxUses # 0 THEN {body.maxUses} ELSE {},
               usedCount |-> 0,
               isActive |-> TRUE])
  /\ UNCHANGED <<credits, history, payments, couponUsages, paymentRequests,
                 plans, now, reqs>>

\* the check of PATCH /api/coupons/:id
PatchCouponCheck(id) == IF id \notin DOMAIN coupons THEN "NotFound" ELSE "ok"

\* PatchCoupon that also sets usedCount back to 0
PatchCouponResetsCount(id, body) ==
  /\ IF PatchCouponCheck(id) # "ok"
       THEN UNCHANGED coupons
       ELSE coupons' = [coupons EXCEPT
              ![id].isActive = IF body.isActive # {}
                                 THEN CHOOSE b \in body.isActive : TRUE ELSE @,
              ![id].maxUses = IF body.maxUses # {}
                                THEN CHOOSE m \in body.maxUses : TRUE ELSE @,
              ![id].usedCount = 0]
  /\ UNCHANGED <<credits, history, payments, couponUsages, paymentRequests,
                 plans, now, reqs>>

\* PATCH /api/coupons/:id (admin): writes the fields the body carries
PatchCoupon(id, body) ==
  /\ IF PatchCouponCheck(id) # "ok"
       THEN UNCHANGED coupons
       ELSE coupons' = [coupons EXCEPT
              ![id].isActive = IF body.isActive # {}
                                 THEN CHOOSE b \in body.isActive : TRUE ELSE @,
              ![id].maxUses = IF body.maxUses # {}
                                THEN CHOOSE m \in body.maxUses : TRUE ELSE @]
  /\ UNCHANGED <<credits, history, payments, couponUsages, paymentRequests,
                 plans, now, reqs>>

\* what POST /api/coupons/validate answers
ValidateResult(code) ==
  IF code = "" THEN "MissingParam"
  ELSE LET result == validateCoupon(code) IN
       IF result.valid THEN "valid" ELSE result.reason

\* ValidateEffect that counts a use on the coupon the code names
ValidateEffectCountsUse(code) ==
  /\ coupons' = [i \in DOMAIN coupons |->
       IF i \in CouponByCode(ToUpperCase(code))
         THEN [coupons[i] EXCEPT !.usedCount = @ + 1] ELSE coupons[i]]
  /\ UNCHANGED <<credits, history, payments, couponUsages, paymentRequests, plans>>

\* what POST /api/coupons/validate writes
ValidateEffect(code) == UNCHANGED db

\* time passes
Tick ==
  /\ now < MaxTime
  /\ now' = now + 1
  /\ UNCHANGED <<db, reqs>>

\* ------------------------------------------------------ gateway path: create

\* CreatePaymentCheck that never validates the coupon
CreatePaymentCheckNoCoupon(productId, couponCode) ==
  IF productId \notin DOMAIN PRODUCTS THEN "InvalidProduct" ELSE "ok"

\* the checks of POST /api/payments
CreatePaymentCheck(productId, couponCode) ==
  IF productId \notin DOMAIN PRODUCTS THEN "InvalidProduct"
  ELSE IF couponCode # "" /\ ~validateCoupon(couponCode).valid THEN "InvalidCoupon"
  ELSE "ok"

\* NewPayment without the floor of 0 on the amount
NewPaymentUnclamped(u, productId, couponCode) ==
  LET product == PRODUCTS[productId]
      couponId == IF couponCode # "" THEN validateCoupon(couponCode).coupon ELSE {}
      finalAmount ==
        IF couponId # {}
          THEN product.price - coupons[CHOOSE i \in couponId : TRUE].discountAmount
          ELSE product.price IN
  [userId |-> u, productId |-> productId, amount |-> finalAmount,
   creditsAdded |-> product.credits, status |-> "pending", couponId |-> couponId]

\* the row POST /api/payments creates
NewPayment(u, productId, couponCode) ==
  LET product == PRODUCTS[productId]
      couponId == IF couponCode # "" THEN validateCoupon(couponCode).coupon ELSE {}
      finalAmount ==
        IF couponId # {}
          THEN Max(0, product.price - coupons[CHOOSE i \in couponId : TRUE].discountAmount)
          ELSE product.price IN
  [userId |-> u, productId |-> productId, amount |-> finalAmount,
   creditsAdded |-> product.credits, status |-> "pending", couponId |-> couponId]

\* what POST /api/payments writes
CreatePaymentEffect(u, productId, couponCode) ==
  /\ IF CreatePaymentCheck(productId, couponCode) # "ok"
       THEN UNCHANGED payments
       ELSE /\ Len(payments) < MaxPayments
            /\ payments' = Append(payments, NewPayment(u, productId, couponCode))
  /\ UNCHANGED <<credits, history, coupons, couponUsages, paymentRequests, plans>>

\* POST /api/payments
CreatePayment(u, productId, couponCode) ==
  /\ CreatePaymentEffect(u, productId, couponCode)
  /\ UNCHANGED <<now, reqs>>

\* ----------------------------------------------------- gateway path: confirm

\* ConfirmCheck that looks the payment up by orderId alone
ConfirmCheckAnyOwner(u, orderId, amount) ==
  IF amount = 0 THEN "MissingParam"
  ELSE IF orderId \notin DOMAIN payments THEN "NotFound"
  ELSE IF payments[orderId].status = "completed" THEN "AlreadyProcessed"
  ELSE IF payments[orderId].amount # amount THEN "AmountMismatch"
  ELSE "ok"

\* ConfirmCheck without the test for a completed payment
ConfirmCheckNoStatus(u, orderId, amount) ==
  IF amount = 0 THEN "MissingParam"
  ELSE IF ~(orderId \in DOMAIN payments /\ payments[orderId].userId = u) THEN "NotFound"
  ELSE IF payments[orderId].amount # amount THEN "AmountMismatch"
  ELSE "ok"

\* the checks of POST /api/payments/confirm before the gateway call
ConfirmCheck(u, orderId, amount) ==
  IF amount = 0 THEN "MissingParam"
  ELSE IF ~(orderId \in DOMAIN payments /\ payments[orderId].userId = u) THEN "NotFound"
  ELSE IF payments[orderId].status = "completed" THEN "AlreadyProcessed"
  ELSE IF payments[orderId].amount # amount THEN "AmountMismatch"
  ELSE "ok"

\* ConfirmFailedUpdate that leaves the payment as it is
ConfirmFailedUpdateSkipped(id) == UNCHANGED db

\* prisma.payment.update({ data: { status: "failed" } }) after a gateway refusal
ConfirmFailedUpdate(id) ==
  /\ payments' = [payments EXCEPT ![id].status = "failed"]
  /\ UNCHANGED <<credits, history, coupons, couponUsages, paymentRequests, plans>>

\* ConfirmTx that counts the coupon use but writes no couponUsage row
ConfirmTxNoUsageRow(payment, id, u) ==
  /\ payments' = [payments EXCEPT ![id].status = "completed"]
  /\ IF payment.couponId # {}
       THEN LET c == CHOOSE i \in payment.couponId : TRUE IN
            coupons' = [coupons EXCEPT ![c].usedCount = @ + 1]
       ELSE UNCHANGED coupons
  /\ UNCHANGED couponUsages
  /\ credits' = [credits EXCEPT ![u] = @ + payment.creditsAdded]
  /\ history' = Append(history,
       [userId |-> u, type |-> "purchase", amount |-> payment.creditsAdded,
        description |-> "purchase", paymentId |-> {id}])
  /\ UNCHANGED <<paymentRequests, plans>>

\* the prisma.$transaction of confirm; payment is the row as findFirst read it
ConfirmTx(payment, id, u) ==
  /\ payments' = [payments EXCEPT ![id].status = "completed"]
  /\ IF payment.couponId # {}
       THEN LET c == CHOOSE i \in payment.couponId : TRUE IN
            /\ coupons' = [coupons EXCEPT ![c].usedCount = @ + 1]
            /\ couponUsages' = Append(couponUsages,
                 [couponId |-> c, userId |-> u, type |-> "payment"])
       ELSE UNCHANGED <<coupons, couponUsages>>
  /\ credits' = [credits EXCEPT ![u] = @ + payment.creditsAdded]
  /\ history' = Append(history,
       [userId |-> u, type |-> "purchase", amount |-> payment.creditsAdded,
        description |-> "purchase", paymentId |-> {id}])
  /\ UNCHANGED <<paymentRequests, plans>>

\* ConfirmWrite that marks the payment failed when the gateway call throws
ConfirmWriteFailsOnError(payment, id, u, reply) ==
  CASE reply = "error" -> ConfirmFailedUpdate(id)
    [] reply = "rejected" -> ConfirmFailedUpdate(id)
    [] reply = "accepted" -> Len(history) < MaxHistory /\ ConfirmTx(payment, id, u)

\* what confirm does once the gateway has answered
ConfirmWrite(payment, id, u, reply) ==
  CASE reply = "error" -> UNCHANGED db
    [] reply = "rejected" -> ConfirmFailedUpdate(id)
    [] reply = "accepted" -> Len(history) < MaxHistory /\ ConfirmTx(payment, id, u)

\* what POST /api/payments/confirm writes
ConfirmEffect(u, orderId, amount, reply) ==
  IF ConfirmCheck(u, orderId, amount) # "ok"
    THEN UNCHANGED db
    ELSE ConfirmWrite(payments[orderId], orderId, u, reply)

\* what POST /api/payments/confirm answers
ConfirmResult(u, orderId, amount, reply) ==
  IF ConfirmCheck(u, orderId, amount) # "ok" THEN ConfirmCheck(u, orderId, amount)
  ELSE CASE reply = "error" -> "GatewayError"
         [] reply = "rejected" -> "GatewayDeclined"
         [] reply = "accepted" -> "ok"

\* POST /api/payments/confirm, served without interruption
Confirm(u, orderId, amount, reply) ==
  /\ ConfirmEffect(u, orderId, amount, reply)
  /\ UNCHANGED <<now, reqs>>

\* ------------------------------------------------------------- credit use

\* DebitCheck that refuses only a balance below 0
DebitCheckBelowZero(balance) == IF balance < 0 THEN "InsufficientCredits" ELSE "ok"

\* the balance check of POST /api/credits/use and of plan creation with useCredit
DebitCheck(balance) == IF balance < 1 THEN "InsufficientCredits" ELSE "ok"

\* the prisma.$transaction of POST /api/credits/use
UseTx(u) ==
  /\ credits' = [credits EXCEPT ![u] = @ - 1]
  /\ history' = Append(history,
       [userId |-> u, type |-> "use", amount |-> -1,
        description |-> "use", paymentId |-> {}])
  /\ UNCHANGED <<payments, coupons, couponUsages, paymentRequests, plans>>

\* what POST /api/credits/use writes
UseCreditEffect(u) ==
  IF DebitCheck(credits[u]) # "ok"
    THEN UNCHANGED db
    ELSE Len(history) < MaxHistory /\ UseTx(u)

\* POST /api/credits/use, served without interruption
UseCredit(u) ==
  /\ UseCreditEffect(u)
  /\ UNCHANGED <<now, reqs>>

\* the prisma.$transaction of plan creation with useCredit
PlanTx(u) ==
  /\ credits' = [credits EXCEPT ![u] = @ - 1]
  /\ plans' = Append(plans, [userId |-> u, content |-> "draft", deleted |-> FALSE])
  /\ history' = Append(history,
       [userId |-> u, type |-> "use", amount |-> -1,
        description |-> "plan", paymentId |-> {}])
  /\ UNCHANGED <<payments, coupons, couponUsages, paymentRequests>>

\* prisma.businessPlan.create of plan creation without useCredit
PlanCreate(u) ==
  /\ plans' = Append(plans, [userId |-> u, content |-> "draft", deleted |-> FALSE])
  /\ UNCHANGED <<credits, history, payments, coupons, couponUsages, paymentRequests>>

\* what POST /api/business-plans (a new plan) writes
CreatePlanEffect(u, useCredit) ==
  IF useCredit
    THEN IF DebitCheck(credits[u]) # "ok"
           THEN UNCHANGED db
           ELSE Len(history) < MaxHistory /\ Len(plans) < MaxPlans /\ PlanTx(u)
    ELSE Len(plans) < MaxPlans /\ PlanCreate(u)

\* what POST /api/business-plans (a new plan) answers
CreatePlanResult(u, useCredit) == IF useCredit THEN DebitCheck(credits[u]) ELSE "ok"

\* POST /api/business-plans (a new plan), served without interruption
CreatePlan(u, useCredit) ==
  /\ CreatePlanEffect(u, useCredit)
  /\ UNCHANGED <<now, reqs>>

\* ------------------------------------------------------ manual transfer path

\* SubmitCheck without the minimum deposit
SubmitCheckNoMinimum(originalAmount, couponCode) ==
  IF originalAmount = 0 THEN "MissingParam"
  ELSE IF couponCode # "" /\ ~validateCoupon(couponCode).valid THEN "InvalidCoupon"
  ELSE "ok"

\* the checks of POST /api/payment-requests
SubmitCheck(originalAmount, couponCode) ==
  IF originalAmount = 0 THEN "MissingParam"
  ELSE IF originalAmount < MinDeposit THEN "BelowMinimum"
  ELSE IF couponCode # "" /\ ~validateCoupon(couponCode).valid THEN "InvalidCoupon"
  ELSE "ok"

\* the row POST /api/payment-requests creates
NewPaymentRequest(u, originalAmount, couponCode, creditsToAdd) ==
  LET couponId == IF couponCode # "" THEN validateCoupon(couponCode).coupon ELSE {}
      discountAmount ==
        IF couponId # {} THEN coupons[CHOOSE i \in couponId : TRUE].discountAmount ELSE 0 IN
  [userId |-> u,
   amount |-> Max(0, originalAmount - discountAmount),
   originalAmount |-> originalAmount,
   discountAmount |-> discountAmount,
   couponId |-> couponId,
   creditsToAdd |-> IF creditsToAdd # 0 THEN creditsToAdd ELSE 1,
   status |-> "pending",
   adminNote |-> ""]

\* what POST /api/payment-requests writes
SubmitRequestEffect(u, originalAmount, couponCode, creditsToAdd) ==
  /\ IF SubmitCheck(originalAmount, couponCode) # "ok"
       THEN UNCHANGED paymentRequests
       ELSE /\ Len(paymentRequests) < MaxRequests
            /\ paymentRequests' = Append(paymentRequests,
                 NewPaymentRequest(u, originalAmount, couponCode, creditsToAdd))
  /\ UNCHANGED <<credits, history, payments, coupons, couponUsages, plans>>

\* POST /api/payment-requests
SubmitRequest(u, originalAmount, couponCode, creditsToAdd) ==
  /\ SubmitRequestEffect(u, originalAmount, couponCode, creditsToAdd)
  /\ UNCHANGED <<now, reqs>>

\* DecisionCheck without the test for a pending request
DecisionCheckNoStatus(id) ==
  IF id \notin DOMAIN paymentRequests THEN "NotFound" ELSE "ok"

\* the checks of approve and of reject
DecisionCheck(id) ==
  IF id \notin DOMAIN paymentRequests THEN "NotFound"
  ELSE IF paymentRequests[id].status # "pending" THEN "AlreadyProcessed"
  ELSE "ok"

\* creditsToAdd || paymentRequest.creditsToAdd
FinalCreditsToAdd(creditsToAdd, paymentRequest) ==
  IF creditsToAdd # 0 THEN creditsToAdd ELSE paymentRequest.creditsToAdd

\* the prisma.$transaction of approve; paymentRequest is the row as findUnique read it
ApproveTx(paymentRequest, id, creditsToAdd) ==
  LET finalCreditsToAdd == FinalCreditsToAdd(creditsToAdd, paymentRequest) IN
  /\ paymentRequests' = [paymentRequests EXCEPT
       ![id].status = "approved", ![id].creditsToAdd = finalCreditsToAdd]
  /\ credits' = [credits EXCEPT ![paymentRequest.userId] = @ + finalCreditsToAdd]
  /\ history' = Append(history,
       [userId |-> paymentRequest.userId, type |-> "purchase",
        amount |-> finalCreditsToAdd, description |-> "deposit", paymentId |-> {}])
  /\ UNCHANGED <<payments, coupons, couponUsages, plans>>

\* POST /api/admin/payment-requests/:id/approve, served without interruption
Approve(id, creditsToAdd) ==
  /\ IF DecisionCheck(id) # "ok"
       THEN UNCHANGED db
       ELSE Len(history) < MaxHistory /\ ApproveTx(paymentRequests[id], id, creditsToAdd)
  /\ UNCHANGED <<now, reqs>>

\* RejectUpdate that also takes the request's credits from its owner
RejectUpdateClawback(id, adminNote) ==
  /\ paymentRequests' = [paymentRequests EXCEPT
       ![id].status = "rejected", ![id].adminNote = adminNote]
  /\ credits' = [credits EXCEPT
       ![paymentRequests[id].userId] = @ - paymentRequests[id].creditsToAdd]
  /\ UNCHANGED <<history, payments, coupons, couponUsages, plans>>

\* prisma.paymentRequest.update({ data: { status: "rejected", adminNote } })
RejectUpdate(id, adminNote) ==
  /\ paymentRequests' = [paymentRequests EXCEPT
       ![id].status = "rejected", ![id].adminNote = adminNote]
  /\ UNCHANGED <<credits, history, payments, coupons, couponUsages, plans>>

\* POST /api/admin/payment-requests/:id/reject, served without interruption
Reject(id, adminNote) ==
  /\ IF DecisionCheck(id) # "ok"
       THEN UNCHANGED db
       ELSE RejectUpdate(id, adminNote)
  /\ UNCHANGED <<now, reqs>>

\* ------------------------------------------------------ admin credit override

\* OverrideCheck without the test for a negative value
OverrideCheckAnyValue(id, newCredits) ==
  IF id \notin Users THEN "NotFound" ELSE "ok"

\* the checks of PATCH /api/admin/users/:id/credits
OverrideCheck(id, newCredits) ==
  IF newCredits < 0 THEN "Invalid"
  ELSE IF id \notin Users THEN "NotFound"
  ELSE "ok"

\* OverrideTx that records a history row only when it raises the balance
OverrideTxRaiseOnly(id, newCredits, previousCredits) ==
  LET creditDiff == newCredits - previousCredits IN
  /\ credits' = [credits EXCEPT ![id] = newCredits]
  /\ IF creditDiff > 0
       THEN history' = Append(history,
              [userId |-> id, type |-> "purchase",
               amount |-> creditDiff, description |-> "admin", paymentId |-> {}])
       ELSE UNCHANGED history
  /\ UNCHANGED <<payments, coupons, couponUsages, paymentRequests, plans>>

\* the prisma.$transaction of the override; previousCredits is the balance as read
OverrideTx(id, newCredits, previousCredits) ==
  LET creditDiff == newCredits - previousCredits IN
  /\ credits' = [credits EXCEPT ![id] = newCredits]
  /\ IF creditDiff # 0
       THEN history' = Append(history,
              [userId |-> id, type |-> IF creditDiff > 0 THEN "purchase" ELSE "use",
               amount |-> creditDiff, description |-> "admin", paymentId |-> {}])
       ELSE UNCHANGED history
  /\ UNCHANGED <<payments, coupons, couponUsages, paymentRequests, plans>>

\* PATCH /api/admin/users/:id/credits, served without interruption
Override(id, newCredits) ==
  /\ IF OverrideCheck(id, newCredits) # "ok"
       THEN UNCHANGED db
       ELSE Len(history) < MaxHistory /\ OverrideTx(id, newCredits, credits[id])
  /\ UNCHANGED <<now, reqs>>

\* ------------------------------------------------------- business plans

\* prisma.businessPlan.findUnique finds a row
PlanFound(id) == id \in DOMAIN plans /\ ~plans[id].deleted

\* the checks of GET, GET download, PUT and DELETE /api/business-plans/:id
PlanAccessCheck(u, id) ==
  IF ~PlanFound(id) THEN "NotFound"
  ELSE IF plans[id].userId # u THEN "Forbidden"
  ELSE "ok"

\* the check of POST /api/business-plans with a businessPlanId
ImportPlanCheck(u, businessPlanId) ==
  IF ~PlanFound(businessPlanId) THEN "NotFound" ELSE "ok"

\* what POST /api/business-plans with a businessPlanId writes
ImportPlanEffect(u, businessPlanId) ==
  /\ IF ImportPlanCheck(u, businessPlanId) # "ok"
       THEN UNCHANGED plans
       ELSE plans' = [plans EXCEPT ![businessPlanId].userId = u]
  /\ UNCHANGED <<credits, history, payments, coupons, couponUsages, paymentRequests>>

\* GET /api/business-plans/:id and its download write nothing
GetPlanEffect(u, id) == UNCHANGED db

\* what GET /api/business-plans/:id/download answers: the document, or the error
DownloadPlanResult(u, id) ==
  IF PlanAccessCheck(u, id) = "ok" THEN "file" ELSE PlanAccessCheck(u, id)

\* what PUT /api/business-plans/:id writes
UpdatePlanEffect(u, id, content) ==
  /\ IF PlanAccessCheck(u, id) # "ok"
       THEN UNCHANGED plans
       ELSE plans' = [plans EXCEPT ![id].content = IF content # "" THEN content ELSE @]
  /\ UNCHANGED <<credits, history, payments, coupons, couponUsages, paymentRequests>>

\* what DELETE /api/business-plans/:id writes
DeletePlanEffect(u, id) ==
  /\ IF PlanAccessCheck(u, id) # "ok"
       THEN UNCHANGED plans
       ELSE plans' = [plans EXCEPT ![id].deleted = TRUE]
  /\ UNCHANGED <<credits, history, payments, coupons, couponUsages, paymentRequests>>

\* ------------------------------------------- handlers split at their await
\* A worker p that passed a handler's check holds what the handler read in
\* reqs[p] until its write; a request that fails its check ends at once.

BeginUse(p, u) ==
  /\ reqs[p] = Idle
  /\ DebitCheck(credits[u]) = "ok"
  /\ reqs' = [reqs EXCEPT ![p] = [op |-> "use", user |-> u]]
  /\ UNCHANGED <<db, now>>

EndUse(p) ==
  /\ reqs[p].op = "use"
  /\ Len(history) < MaxHistory
  /\ UseTx(reqs[p].user)
  /\ reqs' = [reqs EXCEPT ![p] = Idle]
  /\ UNCHANGED now

BeginPlan(p, u) ==
  /\ reqs[p] = Idle
  /\ DebitCheck(credits[u]) = "ok"
  /\ reqs' = [reqs EXCEPT ![p] = [op |-> "plan", user |-> u]]
  /\ UNCHANGED <<db, now>>

EndPlan(p) ==
  /\ reqs[p].op = "plan"
  /\ Len(history) < MaxHistory
  /\ Len(plans) < MaxPlans
  /\ PlanTx(reqs[p].user)
  /\ reqs' = [reqs EXCEPT ![p] = Idle]
  /\ UNCHANGED now

BeginConfirm(p, u, orderId, amount) ==
  /\ reqs[p] = Idle
  /\ ConfirmCheck(u, orderId, amount) = "ok"
  /\ reqs' = [reqs EXCEPT ![p] =
       [op |-> "confirm", user |-> u, id |-> orderId, payment |-> payments[orderId]]]
  /\ UNCHANGED <<db, now>>

EndConfirm(p, reply) ==
  /\ reqs[p].op = "confirm"
  /\ ConfirmWrite(reqs[p].payment, reqs[p].id, reqs[p].user, reply)
  /\ reqs' = [reqs EXCEPT ![p] = Idle]
  /\ UNCHANGED now

BeginApprove(p, id, creditsToAdd) ==
  /\ reqs[p] = Idle
  /\ DecisionCheck(id) = "ok"
  /\ reqs' = [reqs EXCEPT ![p] =
       [op |-> "approve", id |-> id, creditsToAdd |-> creditsToAdd,
        paymentRequest |-> paymentRequests[id]]]
  /\ UNCHANGED <<db, now>>

EndApprove(p) ==
  /\ reqs[p].op = "approve"
  /\ Len(history) < MaxHistory
  /\ ApproveTx(reqs[p].paymentRequest, reqs[p].id, reqs[p].creditsToAdd)
  /\ reqs' = [reqs EXCEPT ![p] = Idle]
  /\ UNCHANGED now

BeginReject(p, id, adminNote) ==
  /\ reqs[p] = Idle
  /\ DecisionCheck(id) = "ok"
  /\ reqs' = [reqs EXCEPT ![p] = [op |-> "reject", id |-> id, adminNote |-> adminNote]]
  /\ UNCHANGED <<db, now>>

EndReject(p) ==
  /\ reqs[p].op = "reject"
  /\ RejectUpdate(reqs[p].id, reqs[p].adminNote)
  /\ reqs' = [reqs EXCEPT ![p] = Idle]
  /\ UNCHANGED now

\* the override reads the balance with findUnique before its transaction starts
BeginOverride(p, id, newCredits) ==
  /\ reqs[p] = Idle
  /\ OverrideCheck(id, newCredits) = "ok"
  /\ reqs' = [reqs EXCEPT ![p] =
       [op |-> "override", id |-> id, credits |-> newCredits,
        previousCredits |-> credits[id]]]
  /\ UNCHANGED <<db, now>>

EndOverride(p) ==
  /\ reqs[p].op = "override"
  /\ Len(history) < MaxHistory
  /\ OverrideTx(reqs[p].id, reqs[p].credits, reqs[p].previousCredits)
  /\ reqs' = [reqs EXCEPT ![p] = Idle]
  /\ UNCHANGED now

\* --------------------------------- handlers with their response recorded
\* Worker p serves the request without interruption and reqs[p] keeps the
\* response it sent.

ServeValidate(p, code) ==
  /\ ValidateEffect(code)
  /\ Respond(p, ValidateResult(code))
  /\ UNCHANGED now

ServeCreatePayment(p, u, productId, couponCode) ==
  /\ CreatePaymentEffect(u, productId, couponCode)
  /\ Respond(p, CreatePaymentCheck(productId, couponCode))
  /\ UNCHANGED now

ServeConfirm(p, u, orderId, amount, reply) ==
  /\ ConfirmEffect(u, orderId, amount, reply)
  /\ Respond(p, ConfirmResult(u, orderId, amount, reply))
  /\ UNCHANGED now

ServeUseCredit(p, u) ==
  /\ UseCreditEffect(u)
  /\ Respond(p, DebitCheck(credits[u]))
  /\ UNCHANGED now

ServeCreatePlan(p, u, useCredit) ==
  /\ CreatePlanEffect(u, useCredit)
  /\ Respond(p, CreatePlanResult(u, useCredit))
  /\ UNCHANGED now

ServeImportPlan(p, u, businessPlanId) ==
  /\ ImportPlanEffect(u, businessPlanId)
  /\ Respond(p, ImportPlanCheck(u, businessPlanId))
  /\ UNCHANGED now

ServeGetPlan(p, u, id) ==
  /\ GetPlanEffect(u, id)
  /\ Respond(p, PlanAccessCheck(u, id))
  /\ UNCHANGED now

ServeDownloadPlan(p, u, id) ==
  /\ GetPlanEffect(u, id)
  /\ Respond(p, DownloadPlanResult(u, id))
  /\ UNCHANGED now

ServeUpdatePlan(p, u, id, content) ==
  /\ UpdatePlanEffect(u, id, content)
  /\ Respond(p, PlanAccessCheck(u, id))
  /\ UNCHANGED now

ServeDeletePlan(p, u, id) ==
  /\ DeletePlanEffect(u, id)
  /\ Respond(p, PlanAccessCheck(u, id))
  /\ UNCHANGED now

ServeSubmitRequest(p, u, originalAmount, couponCode, creditsToAdd) ==
  /\ SubmitRequestEffect(u, originalAmount, couponCode, creditsToAdd)
  /\ Respond(p, SubmitCheck(originalAmount, couponCode))
  /\ UNCHANGED now

\* ---------------------------------------------------------- specifications
Next ==
  \/ \E body \in CouponBodies : CreateCoupon(body)
  \/ Tick
  \/ \E u \in Customers, productId \in ProductInputs, code \in CodeInputs :
       CreatePayment(u, productId, code)
  \/ \E u \in Users, o \in OrderIdInputs, a \in AmountInputs, g \in GatewayReplies :
       Confirm(u, o, a, g)
  \/ \E u \in Users : UseCredit(u)
  \/ \E u \in Customers, useCredit \in BOOLEAN : CreatePlan(u, useCredit)
  \/ \E u \in Customers, a \in DepositInputs, code \in CodeInputs,
        c \in SubmitCreditsInputs : SubmitRequest(u, a, code, c)
  \/ \E id \in RequestIdInputs, c \in ApproveCreditsInputs : Approve(id, c)
  \/ \E id \in RequestIdInputs, note \in NoteInputs : Reject(id, note)
  \/ \E id \in OverrideTargets, c \in OverrideInputs : Override(id, c)

Spec == Init /\ [][Next]_vars

\* two workers serving credit debits; the balance comes from confirmed payments
\* and approved requests, which only add to it
NextDebitRace ==
  \/ \E u \in Customers, productId \in ProductInputs : CreatePayment(u, productId, "")
  \/ \E u \in Users, o \in OrderIdInputs, a \in AmountInputs, g \in GatewayReplies :
       Confirm(u, o, a, g)
  \/ \E u \in Customers, a \in DepositInputs : SubmitRequest(u, a, "", 0)
  \/ \E id \in RequestIdInputs, c \in ApproveCreditsInputs : Approve(id, c)
  \/ \E p \in Procs, u \in Users : BeginUse(p, u)
  \/ \E p \in Procs : EndUse(p)
  \/ \E p \in Procs, u \in Customers : BeginPlan(p, u)
  \/ \E p \in Procs : EndPlan(p)

SpecDebitRace == Init /\ [][NextDebitRace]_vars

\* two workers serving confirms of the payments customers created
NextConfirmRace ==
  \/ \E body \in CouponBodies : CreateCoupon(body)
  \/ \E u \in Customers, productId \in ProductInputs, code \in CodeInputs :
       CreatePayment(u, productId, code)
  \/ \E p \in Procs, u \in Users, o \in OrderIdInputs, a \in AmountInputs :
       BeginConfirm(p, u, o, a)
  \/ \E p \in Procs, g \in GatewayReplies : EndConfirm(p, g)

SpecConfirmRace == Init /\ [][NextConfirmRace]_vars

\* two admin requests deciding the payment requests customers submitted
NextDecisionRace ==
  \/ \E u \in Customers, a \in DepositInputs, c \in SubmitCreditsInputs :
       SubmitRequest(u, a, "", c)
  \/ \E p \in Procs, id \in RequestIdInputs, c \in ApproveCreditsInputs :
       BeginApprove(p, id, c)
  \/ \E p \in Procs : EndApprove(p)
  \/ \E p \in Procs, id \in RequestIdInputs, note \in NoteInputs :
       BeginReject(p, id, note)
  \/ \E p \in Procs : EndReject(p)

SpecDecisionRace == Init /\ [][NextDecisionRace]_vars

\* one worker serving the coupon, payment and credit-use routes one request after
\* the other, its last response kept
NextServed ==
  \/ \E body \in CouponBodies : CreateCoupon(body)
  \/ \E id \in CouponIdInputs, body \in PatchBodies : PatchCoupon(id, body)
  \/ Tick
  \/ \E code \in CodeInputs : ServeValidate("p1", code)
  \/ \E u \in Customers, productId \in ProductInputs, code \in CodeInputs :
       ServeCreatePayment("p1", u, productId, code)
  \/ \E u \in Users, o \in OrderIdInputs, a \in AmountInputs, g \in GatewayReplies :
       ServeConfirm("p1", u, o, a, g)
  \/ \E u \in Users : ServeUseCredit("p1", u)
  \/ \E u \in Customers, useCredit \in BOOLEAN : ServeCreatePlan("p1", u, useCredit)

SpecServed == Init /\ [][NextServed]_vars

\* admin overrides split at the await between their read and their transaction,
\* with uses, gateway confirms and approvals of the same account in between
NextOverrideRace ==
  \/ \E u \in Customers, productId \in ProductInputs : CreatePayment(u, productId, "")
  \/ \E u \in Users, o \in OrderIdInputs, a \in AmountInputs, g \in GatewayReplies :
       Confirm(u, o, a, g)
  \/ \E u \in Customers, a \in DepositInputs : SubmitRequest(u, a, "", 0)
  \/ \E id \in RequestIdInputs, c \in ApproveCreditsInputs : Approve(id, c)
  \/ \E u \in Customers : UseCredit(u)
  \/ \E p \in Procs, id \in OverrideTargets, c \in OverrideInputs : BeginOverride(p, id, c)
  \/ \E p \in Procs : EndOverride(p)

SpecOverrideRace == Init /\ [][NextOverrideRace]_vars

\* one worker serving the business-plan routes to both users, its last response
\* kept, and the admin setting the credits a plan creation can spend
NextPlans ==
  \/ \E id \in OverrideTargets, c \in OverrideInputs : Override(id, c)
  \/ \E u \in Users, useCredit \in BOOLEAN : ServeCreatePlan("p1", u, useCredit)
  \/ \E u \in Users, id \in PlanIdInputs : ServeImportPlan("p1", u, id)
  \/ \E u \in Users, id \in PlanIdInputs : ServeGetPlan("p1", u, id)
  \/ \E u \in Users, id \in PlanIdInputs : ServeDownloadPlan("p1", u, id)
  \/ \E u \in Users, id \in PlanIdInputs, content \in ContentInputs :
       ServeUpdatePlan("p1", u, id, content)
  \/ \E u \in Users, id \in PlanIdInputs : ServeDeletePlan("p1", u, id)

SpecPlans == Init /\ [][NextPlans]_vars

\* one worker serving the submissions of the manual transfer path, its last
\* response kept, and the admin deciding them
NextManual ==
  \/ \E body \in CouponBodies : CreateCoupon(body)
  \/ Tick
  \/ \E u \in Customers, a \in DepositInputs, code \in CodeInputs,
        c \in SubmitCreditsInputs : ServeSubmitRequest("p1", u, a, code, c)
  \/ \E id \in RequestIdInputs, c \in ApproveCreditsInputs : Approve(id, c)
  \/ \E id \in RequestIdInputs, note \in NoteInputs : Reject(id, note)

SpecManual == Init /\ [][NextManual]_vars

\* ------------------------------------------------------------------ claims

RECURSIVE SumAmounts(_)
SumAmounts(s) == IF s = <<>> THEN 0 ELSE Head(s).amount + SumAmounts(Tail(s))

\* the creditHistory rows of account u
HistoryOf(u) == SelectSeq(history, LAMBDA e : e.userId = u)

\* the creditHistory rows that reference payment o
GrantsOf(o) == SelectSeq(history, LAMBDA e : e.paymentId = {o})

\* C1: with requests served one after the other, every account's credits equals
\* the sum of the amounts of its creditHistory rows
LedgerBalanced == \A u \in Users : credits[u] = SumAmounts(HistoryOf(u))

\* an account holds credits after rows of both types were written for it
LedgerBalancedWitness ==
  \E i, j \in DOMAIN history :
    /\ history[i].userId = "alice" /\ history[i].type = "purchase"
    /\ history[j].userId = "alice" /\ history[j].type = "use"
    /\ credits["alice"] > 0

\* C2: a credit debit (use, or plan creation with useCredit) racing another debit
\* on the same account never leaves the balance below 0
DebitNeverOverdraws ==
  [][\A p \in Procs : (EndUse(p) \/ EndPlan(p)) => credits'[reqs[p].user] >= 0]_vars

\* C3: however confirms of one orderId interleave, at most one purchase row
\* references the payment, so its credits are granted at most once
GrantedOncePerPayment == \A o \in DOMAIN payments : Len(GrantsOf(o)) <= 1

\* C4: once a confirm completed a payment, a later confirm of that orderId by its
\* owner answers AlreadyProcessed and changes nothing; the payment was granted once
SecondConfirmRefused ==
  /\ [](\A o \in DOMAIN payments : payments[o].status = "completed" =>
          /\ Len(GrantsOf(o)) = 1
          /\ \A a \in AmountInputs \ {0} :
               ConfirmCheck(payments[o].userId, o, a) = "AlreadyProcessed")
  /\ [][\A u \in Users, o \in DOMAIN payments, a \in AmountInputs \ {0},
          g \in GatewayReplies :
          (payments[o].userId = u /\ payments[o].status = "completed"
             /\ Confirm(u, o, a, g)) => UNCHANGED db]_vars

\* a payment is completed, so a second confirm of it meets the refusal
SecondConfirmRefusedWitness ==
  \E o \in DOMAIN payments :
    /\ payments[o].status = "completed"
    /\ ConfirmCheck(payments[o].userId, o, payments[o].amount) = "AlreadyProcessed"

\* C5: a payment that is completed or failed keeps its status
PaymentStatusFinal ==
  [][\A o \in DOMAIN payments :
       payments[o].status # "pending" => payments'[o].status = payments[o].status]_vars

\* C6: a coupon's usedCount never exceeds its maxUses, and never decreases
CouponCapRespected ==
  /\ [](\A c \in DOMAIN coupons : \A m \in coupons[c].maxUses : coupons[c].usedCount <= m)
  /\ [][\A c \in DOMAIN coupons : coupons'[c].usedCount >= coupons[c].usedCount]_vars

\* C7: of the payments carrying a coupon with maxUses = 1, confirms that race
\* complete at most one, and the coupon's usedCount ends at most 1
OneRedemptionOfSingleUse ==
  \A c \in DOMAIN coupons : coupons[c].maxUses = {1} =>
    /\ Cardinality({o \in DOMAIN payments :
         payments[o].couponId = {c} /\ payments[o].status = "completed"}) <= 1
    /\ coupons[c].usedCount <= 1

\* C8: an approve or reject that races another decision on the same request writes
\* only while the request is still pending, so credits are granted at most once
\* and never for a request that ends rejected
DecidedOnce ==
  /\ [][\A p \in Procs : (EndApprove(p) \/ EndReject(p)) =>
         paymentRequests[reqs[p].id].status = "pending"]_vars
  /\ [](Len(SelectSeq(history, LAMBDA e : e.description = "deposit"))
          <= Cardinality({r \in DOMAIN paymentRequests :
               paymentRequests[r].status = "approved"}))

\* C9: a decided request keeps its row; approve and reject answer NotFound for an
\* unknown id and AlreadyProcessed for a decided request, and then change nothing
DecisionFinal ==
  /\ [](\A id \in RequestIdInputs :
          /\ id \notin DOMAIN paymentRequests => DecisionCheck(id) = "NotFound"
          /\ (id \in DOMAIN paymentRequests /\ paymentRequests[id].status # "pending")
               => DecisionCheck(id) = "AlreadyProcessed")
  /\ [][\A r \in DOMAIN paymentRequests :
          paymentRequests[r].status # "pending" => paymentRequests'[r] = paymentRequests[r]]_vars
  /\ [][\A id \in RequestIdInputs, c \in ApproveCreditsInputs, note \in NoteInputs :
          ((Approve(id, c) \/ Reject(id, note)) /\ DecisionCheck(id) # "ok")
            => UNCHANGED db]_vars

\* a request was approved and its credits granted
DecisionFinalWitness ==
  \E r \in DOMAIN paymentRequests :
    /\ paymentRequests[r].status = "approved"
    /\ DecisionCheck(r) = "AlreadyProcessed"
    /\ credits[paymentRequests[r].userId] = paymentRequests[r].creditsToAdd

\* C10: a confirm of a pending payment that the gateway accepts completes the
\* payment, adds creditsAdded to the owner's balance, appends one purchase row that
\* references the payment and, with a coupon attached, counts one use and appends
\* one couponUsage row; a payment is completed exactly when its purchase row exists
ConfirmAllOrNothing ==
  /\ [](\A o \in DOMAIN payments :
          payments[o].status = "completed" <=> Len(GrantsOf(o)) = 1)
  /\ [][\A u \in Users, o \in DOMAIN payments, a \in AmountInputs :
          (payments[o].status = "pending" /\ ConfirmCheck(u, o, a) = "ok"
             /\ Confirm(u, o, a, "accepted")) =>
            /\ payments' = [payments EXCEPT ![o].status = "completed"]
            /\ credits' = [credits EXCEPT ![u] = @ + payments[o].creditsAdded]
            /\ history' = Append(history,
                 [userId |-> u, type |-> "purchase", amount |-> payments[o].creditsAdded,
                  description |-> "purchase", paymentId |-> {o}])
            /\ \A c \in payments[o].couponId :
                 /\ coupons' = [coupons EXCEPT ![c].usedCount = @ + 1]
                 /\ couponUsages' = Append(couponUsages,
                      [couponId |-> c, userId |-> u, type |-> "payment"])
            /\ payments[o].couponId = {} => UNCHANGED <<coupons, couponUsages>>
            /\ UNCHANGED <<paymentRequests, plans>>]_vars

\* an account that started at 0 holds the 3 credits of its one completed payment,
\* which carried a coupon
ConfirmAllOrNothingWitness ==
  \E o \in DOMAIN payments :
    /\ payments[o].status = "completed"
    /\ payments[o].couponId # {}
    /\ credits[payments[o].userId] = 3
    /\ Len(history) = 1
    /\ Len(couponUsages) = 1
\* the response the serving worker sent last
LastResult == IF reqs["p1"].op = "done" THEN reqs["p1"].result ELSE "none"

\* C11: a credit use, or a plan creation with useCredit, by an account whose
\* balance is below 1 answers InsufficientCredits and changes neither the balance
\* nor the history, and creates no plan
InsufficientCreditsRefused ==
  [][\A u \in Users : credits[u] < 1 =>
       /\ ServeUseCredit("p1", u) =>
            (LastResult' = "InsufficientCredits" /\ UNCHANGED db)
       /\ (u \in Customers /\ ServeCreatePlan("p1", u, TRUE)) =>
            (LastResult' = "InsufficientCredits" /\ UNCHANGED db)]_vars

\* a debit by an account that holds no credits was refused; no plan exists and the
\* history is empty
InsufficientCreditsRefusedWitness ==
  /\ LastResult = "InsufficientCredits"
  /\ credits["alice"] = 0
  /\ history = <<>>
  /\ plans = <<>>

\* C12: every account's credits is at least 0 in every reachable state
CreditsNonNegative == \A u \in Users : credits[u] >= 0

\* C13: a reject that passes its checks sets the request's status to rejected and
\* its adminNote, and changes nothing else: no balance, no history row, no coupon
RejectTouchesOnlyRequest ==
  [][\A id \in RequestIdInputs, note \in NoteInputs :
       (DecisionCheck(id) = "ok" /\ Reject(id, note)) =>
         /\ paymentRequests' = [paymentRequests EXCEPT
              ![id].status = "rejected", ![id].adminNote = note]
         /\ UNCHANGED <<credits, history, payments, coupons, couponUsages, plans>>]_vars

\* a request that carried a coupon was rejected with a note; its owner holds no
\* credits and the coupon counts no use
RejectTouchesOnlyRequestWitness ==
  \E r \in DOMAIN paymentRequests :
    /\ paymentRequests[r].status = "rejected"
    /\ paymentRequests[r].adminNote = "no deposit"
    /\ paymentRequests[r].couponId # {}
    /\ credits[paymentRequests[r].userId] = 0
    /\ history = <<>>
    /\ \A c \in DOMAIN coupons : coupons[c].usedCount = 0

\* C14: when the gateway rejects the confirm of a pending payment, the payment
\* becomes failed, the answer is GatewayDeclined, and credits, history, coupons and
\* couponUsages stay as they were
GatewayRejectFailsPayment ==
  [][\A u \in Users, o \in OrderIdInputs, a \in AmountInputs :
       (/\ ConfirmCheck(u, o, a) = "ok"
        /\ payments[o].status = "pending"
        /\ ServeConfirm("p1", u, o, a, "rejected")) =>
         /\ payments' = [payments EXCEPT ![o].status = "failed"]
         /\ LastResult' = "GatewayDeclined"
         /\ UNCHANGED <<credits, history, coupons, couponUsages, paymentRequests, plans>>]_vars

\* the gateway declined a payment that carried a coupon: it is failed, nothing was
\* granted and the coupon counts no use
GatewayRejectFailsPaymentWitness ==
  /\ LastResult = "GatewayDeclined"
  /\ \E o \in DOMAIN payments :
       /\ payments[o].status = "failed"
       /\ \E c \in payments[o].couponId : coupons[c].usedCount = 0
       /\ credits[payments[o].userId] = 0
  /\ history = <<>>
  /\ couponUsages = <<>>

\* C15: when the gateway call of a confirm throws, the payment stays pending,
\* nothing is written, and a confirm of the same orderId still passes its checks
TransportErrorKeepsPending ==
  [][\A u \in Users, o \in OrderIdInputs, a \in AmountInputs :
       (/\ ConfirmCheck(u, o, a) = "ok"
        /\ payments[o].status = "pending"
        /\ ServeConfirm("p1", u, o, a, "error")) =>
         /\ UNCHANGED db
         /\ payments'[o].status = "pending"
         /\ LastResult' = "GatewayError"
         /\ ConfirmResult(u, o, a, "accepted")' = "ok"]_vars

\* a confirm ended in a gateway error and the payment is still pending
TransportErrorKeepsPendingWitness ==
  /\ LastResult = "GatewayError"
  /\ Len(payments) = 1
  /\ payments[1].status = "pending"
  /\ history = <<>>

\* C16: a confirm of an orderId that does not exist or belongs to another account
\* answers NotFound, one with a wrong amount answers AmountMismatch; either way the
\* gateway reply plays no part in the answer and nothing is written, so no account
\* changes another account's payment
ConfirmPreconditionsGuard ==
  /\ [](\A u \in Users, o \in OrderIdInputs, a \in AmountInputs \ {0} :
          /\ (o \notin DOMAIN payments \/ payments[o].userId # u)
               <=> ConfirmCheck(u, o, a) = "NotFound"
          /\ (o \in DOMAIN payments /\ payments[o].userId = u
                /\ payments[o].status = "pending" /\ payments[o].amount # a)
               => ConfirmCheck(u, o, a) = "AmountMismatch"
          /\ ConfirmCheck(u, o, a) \in {"NotFound", "AmountMismatch"} =>
               \A g \in GatewayReplies :
                 ConfirmResult(u, o, a, g) = ConfirmCheck(u, o, a))
  /\ [][\A u \in Users, o \in OrderIdInputs, a \in AmountInputs :
          (ConfirmCheck(u, o, a) \in {"NotFound", "AmountMismatch"}
             /\ LastResult' = ConfirmCheck(u, o, a)) =>
            \A g \in GatewayReplies :
              ServeConfirm("p1", u, o, a, g) => UNCHANGED db]_vars

\* a confirm was refused for its amount while the payment it named stays pending
ConfirmPreconditionsGuardWitness ==
  /\ LastResult = "AmountMismatch"
  /\ Len(payments) = 1
  /\ payments[1].status = "pending"
  /\ credits = [u \in Users |-> 0]

\* the discount POST /api/payments takes off the list price for a code that passed
CouponDiscount(code) ==
  IF code = "" THEN 0
  ELSE LET c == CHOOSE i \in DOMAIN coupons : coupons[i].code = ToUpperCase(code) IN
       coupons[c].discountAmount

\* C17: a create for a known product appends one pending payment whose amount is
\* max(0, listPrice - couponDiscount) and whose creditsAdded is the catalog's, and
\* changes no balance, history row, coupon or couponUsage; 50000 less a coupon of
\* 10000 is 40000
CreatePersistsDiscountedPayment ==
  /\ [](\A productId \in DOMAIN PRODUCTS, code \in CodeInputs :
          CreatePaymentCheck(productId, code) = "ok" =>
            LET row == NewPayment("alice", productId, code) IN
            /\ row.amount = Max(0, PRODUCTS[productId].price - CouponDiscount(code))
            /\ row.amount >= 0
            /\ row.creditsAdded = PRODUCTS[productId].credits
            /\ row.status = "pending"
            /\ (productId = "business_plan_1" /\ CouponDiscount(code) = 10000)
                 => row.amount = 40000)
  /\ [][\A u \in Customers, productId \in ProductInputs, code \in CodeInputs :
          (CreatePaymentCheck(productId, code) = "ok"
             /\ CreatePayment(u, productId, code)) =>
            /\ Len(payments') = Len(payments) + 1
            /\ SubSeq(payments', 1, Len(payments)) = payments
            /\ payments'[Len(payments')].userId = u
            /\ payments'[Len(payments')].amount =
                 Max(0, PRODUCTS[productId].price - CouponDiscount(code))
            /\ payments'[Len(payments')].creditsAdded = PRODUCTS[productId].credits
            /\ payments'[Len(payments')].status = "pending"
            /\ UNCHANGED <<credits, history, coupons, couponUsages,
                           paymentRequests, plans>>]_vars

\* a pending payment was created with the coupon of 10000 off 79900, and nothing
\* else was written
CreatePersistsDiscountedPaymentWitness ==
  /\ Len(payments) = 1
  /\ payments[1].status = "pending"
  /\ payments[1].amount = 69900
  /\ payments[1].creditsAdded = 3
  /\ \E c \in payments[1].couponId : coupons[c].usedCount = 0
  /\ history = <<>>
  /\ couponUsages = <<>>

\* C18: a create with an unknown product answers InvalidProduct, one with a coupon
\* code that validateCoupon refuses answers InvalidCoupon, and neither writes
CreateRefusesBadInput ==
  [][\A u \in Customers, productId \in ProductInputs, code \in CodeInputs :
       ServeCreatePayment("p1", u, productId, code) =>
         /\ productId \notin DOMAIN PRODUCTS =>
              (LastResult' = "InvalidProduct" /\ UNCHANGED db)
         /\ (productId \in DOMAIN PRODUCTS /\ code # "" /\ ~validateCoupon(code).valid) =>
              (LastResult' = "InvalidCoupon" /\ UNCHANGED db)]_vars

\* a create was refused for its coupon, which exists, and no payment was stored
CreateRefusesBadInputWitness ==
  /\ LastResult = "InvalidCoupon"
  /\ coupons # <<>>
  /\ payments = <<>>

\* the reason the checks give in the order existence, isActive, expiry, usage cap
FirstFailingCheck(code) ==
  LET ids == {i \in DOMAIN coupons : coupons[i].code = ToUpperCase(code)} IN
  IF ids = {} THEN "NotFound"
  ELSE IF \E i \in ids : ~coupons[i].isActive THEN "Inactive"
  ELSE IF \E i \in ids : coupons[i].expiresAt < now THEN "Expired"
  ELSE IF \E i \in ids : \E m \in coupons[i].maxUses : coupons[i].usedCount >= m
    THEN "ExhaustedUses"
  ELSE "none"

\* C19: validateCoupon reports the first check that fails in the order existence
\* (whatever the case of the code), isActive, expiry, usage cap, and is valid
\* exactly when none fails; a coupon is expired when its expiresAt is before the
\* time of the validation
ValidateReportsFirstFailure ==
  \A code \in CodeInputs \ {""} :
    /\ validateCoupon(code).reason = FirstFailingCheck(code)
    /\ validateCoupon(code).valid <=> FirstFailingCheck(code) = "none"
    /\ validateCoupon(code).valid <=> validateCoupon(code).coupon # {}

\* the validation answered Inactive for a coupon that is also expired and used up
ValidateReportsFirstFailureWitness ==
  /\ LastResult = "Inactive"
  /\ \E c \in DOMAIN coupons :
       /\ ~coupons[c].isActive
       /\ coupons[c].expiresAt < now
       /\ \E m \in coupons[c].maxUses : coupons[c].usedCount >= m

\* C20: POST /api/coupons/validate writes nothing whatever it answers, and answers
\* an expired coupon with Expired
ValidateWritesNothing ==
  [][\A code \in CodeInputs :
       ServeValidate("p1", code) =>
         /\ UNCHANGED db
         /\ (\E c \in DOMAIN coupons :
               /\ coupons[c].code = ToUpperCase(code)
               /\ coupons[c].isActive
               /\ coupons[c].expiresAt < now) => LastResult' = "Expired"]_vars

\* the validation answered Expired and the coupon counts no use
ValidateWritesNothingWitness ==
  /\ LastResult = "Expired"
  /\ \E c \in DOMAIN coupons : coupons[c].expiresAt < now /\ coupons[c].usedCount = 0
  /\ couponUsages = <<>>
\* C21: an approve that passes its checks sets the request to approved, raises the
\* owner's credits (and no other account's) by the granted amount, which is the
\* admin's creditsToAdd if given and the request's own otherwise and is positive,
\* and appends one purchase row of that amount
ApproveGrantsOwner ==
  [][\A id \in RequestIdInputs, c \in ApproveCreditsInputs :
       (DecisionCheck(id) = "ok" /\ Approve(id, c)) =>
         LET owner == paymentRequests[id].userId
             granted == IF c # 0 THEN c ELSE paymentRequests[id].creditsToAdd IN
         /\ paymentRequests'[id].status = "approved"
         /\ granted > 0
         /\ credits' = [credits EXCEPT ![owner] = @ + granted]
         /\ history' = Append(history,
              [userId |-> owner, type |-> "purchase", amount |-> granted,
               description |-> "deposit", paymentId |-> {}])]_vars

\* C22: an override to a value of 0 or more sets the account's credits to that
\* value and appends one row of amount diff = value - old credits when diff is not
\* 0 and none when it is; an override to a negative value is refused and changes
\* neither credits nor history
OverrideSetsBalance ==
  /\ [](\A id \in Users, c \in OverrideInputs :
          OverrideCheck(id, c) = IF c < 0 THEN "Invalid" ELSE "ok")
  /\ [][\A id \in Users, c \in OverrideInputs : Override(id, c) =>
          IF c < 0 THEN UNCHANGED db
          ELSE /\ credits' = [credits EXCEPT ![id] = c]
               /\ IF c - credits[id] = 0 THEN history' = history
                  ELSE /\ Len(history') = Len(history) + 1
                       /\ SubSeq(history', 1, Len(history)) = history
                       /\ history'[Len(history')].userId = id
                       /\ history'[Len(history')].amount = c - credits[id]]_vars

\* overrides raised an account's credits to 2 and set them back to 0, each with a row
OverrideSetsBalanceWitness ==
  /\ credits["alice"] = 0
  /\ \E i, j \in DOMAIN history :
       /\ i < j
       /\ history[i] = [userId |-> "alice", type |-> "purchase", amount |-> 2,
                        description |-> "admin", paymentId |-> {}]
       /\ history[j] = [userId |-> "alice", type |-> "use", amount |-> -2,
                        description |-> "admin", paymentId |-> {}]

\* C23: every creditHistory row of type purchase has an amount of 0 or more, and
\* every row of type use an amount of 0 or less
AmountSignMatchesType ==
  \A i \in DOMAIN history :
    /\ history[i].type = "purchase" => history[i].amount >= 0
    /\ history[i].type = "use" => history[i].amount <= 0

\* C27: for every pending payment, also one whose amount is 0, a confirm by its
\* owner with the stored amount passes the checks of confirm and reaches the
\* gateway call
PendingPaymentConfirmable ==
  \A o \in DOMAIN payments : payments[o].status = "pending" =>
    /\ ConfirmCheck(payments[o].userId, o, payments[o].amount) = "ok"
    /\ \A g \in GatewayReplies :
         ConfirmResult(payments[o].userId, o, payments[o].amount, g)
           \in {"ok", "GatewayDeclined", "GatewayError"}

\* C29: a confirm redeems the coupon of its payment only if the coupon passes
\* validateCoupon when the confirm runs
RedeemedOnlyWhileValid ==
  [][\A u \in Users, o \in OrderIdInputs, a \in AmountInputs :
       (/\ ConfirmCheck(u, o, a) = "ok"
        /\ payments[o].couponId # {}
        /\ Confirm(u, o, a, "accepted")) =>
         \A c \in payments[o].couponId :
           coupons'[c].usedCount > coupons[c].usedCount =>
             validateCoupon(coupons[c].code).valid]_vars
\* the couponUsage rows recorded for coupon c
UsagesOf(c) == {i \in DOMAIN couponUsages : couponUsages[i].couponId = c}

\* C28: every coupon's usedCount equals the number of couponUsage rows recorded for
\* it, and a coupon PATCH changes neither
UsedCountMatchesUsages ==
  /\ [](\A c \in DOMAIN coupons : coupons[c].usedCount = Cardinality(UsagesOf(c)))
  /\ [][\A id \in CouponIdInputs, body \in PatchBodies : PatchCoupon(id, body) =>
          /\ \A c \in DOMAIN coupons : coupons'[c].usedCount = coupons[c].usedCount
          /\ couponUsages' = couponUsages]_vars

\* a coupon was redeemed once, with its one couponUsage row, and then deactivated
\* by a PATCH
UsedCountMatchesUsagesWitness ==
  \E c \in DOMAIN coupons :
    /\ coupons[c].usedCount = 1
    /\ Cardinality(UsagesOf(c)) = 1
    /\ ~coupons[c].isActive
RequestsWith(c) == {r \in DOMAIN paymentRequests : paymentRequests[r].couponId = {c}}
ApprovedWith(c) == {r \in RequestsWith(c) : paymentRequests[r].status = "approved"}

\* C26: on the manual transfer path every approved request that carries a coupon
\* accounts for one use of the coupon and one couponUsage row, and every other
\* request that carries it for at most one
ManualPathRedeemsCoupon ==
  \A c \in DOMAIN coupons :
    /\ Cardinality(ApprovedWith(c)) <= coupons[c].usedCount
    /\ coupons[c].usedCount <= Cardinality(RequestsWith(c))
    /\ Cardinality(ApprovedWith(c)) <= Cardinality(UsagesOf(c))
    /\ Cardinality(UsagesOf(c)) <= Cardinality(RequestsWith(c))
\* C25: when no override is between its read and its write, every account's
\* credits equal the sum of the amounts of its history rows, whatever uses,
\* confirms and approvals ran between an override's read and its write
LedgerSurvivesOverride ==
  (\A p \in Procs : reqs[p] = Idle) =>
    \A u \in Users : credits[u] = SumAmounts(HistoryOf(u))
\* C30: a request on a business plan by a user who does not own it (get, download,
\* update, delete, or a create that names it as businessPlanId) is answered
\* Forbidden and leaves the plan's owner, content and existence unchanged
PlanOwnerOnly ==
  [][\A u \in Users, id \in PlanIdInputs :
       (PlanFound(id) /\ plans[id].userId # u) =>
         /\ ( \/ ServeGetPlan("p1", u, id)
              \/ ServeDownloadPlan("p1", u, id)
              \/ ServeDeletePlan("p1", u, id)
              \/ ServeImportPlan("p1", u, id)
              \/ \E content \in ContentInputs : ServeUpdatePlan("p1", u, id, content) )
            => (LastResult' = "Forbidden" /\ plans' = plans)]_vars
====
